---------------------------- MODULE Spec2Model ----------------------------
(***************************************************************************)
(* A model of src/bin/binary.cc, the HyperDex "binary" search test: it     *)
(* stores <numbers> points whose key is a number in [0, numbers) and whose *)
(* 32 secondary attributes are the bits of the number, sleeps, searches    *)
(* for every number by its bits and reports the time the searches took.    *)
(*                                                                         *)
(* Number representations.  TLC's integers are 32-bit signed, so           *)
(*   - a uint32_t is a record [hi, lo] of two 16-bit halves;               *)
(*   - a uint64_t is a sequence <<d2, d1, d0>> of three base-10^9 digits   *)
(*     (the value is d2*10^18 + d1*10^9 + d0);                             *)
(*   - time_t and long values stay small enough to be plain integers.      *)
(***************************************************************************)
EXTENDS Integers, Sequences, FiniteSets, TLC

VARIABLES
    pc,        \* position of main
    argv,      \* the command line: [argc, ip, port, number]
    numbers,   \* uint32_t numbers
    num,       \* uint32_t num, the loop variable of both loops
    key,       \* e::buffer key of the current iteration
    value,     \* std::vector<e::buffer> value of the current load iteration
    terms,     \* hyperdex::search terms of the current search iteration
    store,     \* the records the space holds: set of [key, value]
    s,         \* hyperdex::client::search_results s: [results, pos]
    inflight,  \* the store calls that were issued and have not returned
    trace,     \* the calls main has completed, in order
    log,       \* what was written to std::cerr, one entry per line
    start,     \* timespec start
    end,       \* timespec end
    diff,      \* timespec diff
    nanosecs,  \* uint64_t nanosecs
    exitcode,  \* the value main returned, NoExit while it runs
    thrown     \* the exception that left the try block, "none" if none did

vars == <<pc, argv, numbers, num, key, value, terms, store, s, inflight,
          trace, log, start, end, diff, nanosecs, exitcode, thrown>>

-----------------------------------------------------------------------------
(* Bounds of the model *)

MaxN == 2        \* argv[4] ranges over 0..MaxN
MaxEncLo == 4    \* low halves 0..MaxEncLo of the encoder's inputs
MaxEncHi == 1    \* high halves 0..MaxEncHi of the encoder's inputs
MaxSecs == 2     \* clock readings have tv_sec in 10..10+MaxSecs, or 2000000000

(* Program constants *)

NBITS == 32
EXIT_SUCCESS == 0
EXIT_FAILURE == 1
BufSize == 3
NSEC_PER_SEC == 1000000000

\* exitcode while main has not returned
NoExit == 0 - 1

-----------------------------------------------------------------------------
(* uint32_t as two 16-bit halves *)

U32(h, l) == [hi |-> h, lo |-> l]

U32OfNat(n) == U32(n \div 65536, n % 65536)

U32Zero == U32(0, 0)

\* ++num, modulo 2^32
U32Inc(n) ==
    IF n.lo < 65535 THEN U32(n.hi, n.lo + 1)
    ELSE IF n.hi < 65535 THEN U32(n.hi + 1, 0)
    ELSE U32Zero

U32Less(a, b) == a.hi < b.hi \/ (a.hi = b.hi /\ a.lo < b.lo)

RECURSIVE BitAnd16(_, _)
BitAnd16(a, b) ==
    IF a = 0 \/ b = 0 THEN 0
    ELSE (a % 2) * (b % 2) + 2 * BitAnd16(a \div 2, b \div 2)

\* a & b on uint32_t
U32And(a, b) == U32(BitAnd16(a.hi, b.hi), BitAnd16(a.lo, b.lo))

\* the conversion of an int to uint32_t (two's complement)
U32OfInt(x) ==
    IF x >= 0 THEN U32(x \div 65536, x % 65536)
    ELSE U32((x \div 65536) + 65536, x % 65536)

-----------------------------------------------------------------------------
(* The bit encoding: lines 101-122 and 152-166 *)

\* e::buffer(data, sz): the first sz bytes of data
Buffer(data, sz) == SubSeq(data, 1, sz)

\* e::buffer one("one", 3)
one == Buffer(<<"o", "n", "e">>, BufSize)

\* e::buffer zero("zero", 3): three bytes of a four-byte literal
zero == Buffer(<<"z", "e", "r", "o">>, BufSize)

\* 1 << i on int: bit 31 is the sign bit, the result is INT_MIN
Shl1Sign(i) == IF i < 31 THEN 2 ^ i ELSE 0
Shl1(i) == IF i < 31 THEN 2 ^ i ELSE (0 - (2 ^ 30)) - (2 ^ 30)

\* (num & (1 << i)), i counted from 0; the int is converted to uint32_t
BitSetLow(n, i) == U32And(n, U32OfInt(Shl1(i + 1))) # U32Zero
BitSet(n, i) == U32And(n, U32OfInt(Shl1(i))) # U32Zero

\* the loop of lines 110-122; value[i + 1] is the C++ value[i]
AttributeVector(n) == [i \in 1..NBITS |-> IF BitSet(n, i - 1) THEN one ELSE zero]

\* the loop of lines 156-166: terms.set(i, one / zero)
SearchTerms(n) == [i \in 1..NBITS |-> IF BitSet(n, i - 1) THEN one ELSE zero]

\* key.pack() << num: the four bytes of num, most significant first
Key(n) == <<n.hi \div 256, n.hi % 256, n.lo \div 256, n.lo % 256>>

\* buffer.hex(): two hexadecimal digits per byte (each digit as its value)
RECURSIVE Hex(_)
Hex(buf) ==
    IF buf = <<>> THEN <<>>
    ELSE <<Head(buf) \div 16, Head(buf) % 16>> \o Hex(Tail(buf))

-----------------------------------------------------------------------------
(* std::cerr: an entry is the text of the line, with the values that were   *)
(* inserted into it in args, in order.  operator<< prints a uint32_t in     *)
(* decimal; an argument keeps the number it prints, as <<hi, lo>> for a     *)
(* uint32_t and as three base-10^9 digits for the uint64_t.                 *)

Line(text, args) == [text |-> text, args |-> args]

NumArg(n) == <<n.hi, n.lo>>

\* the switch of lines 124-140: the line a put status writes, <<>> for none
PutLinesTwice(status) ==
    IF status = "SUCCESS" THEN <<>>
    ELSE <<Line("Put returned unknown status.", <<>>),
           Line("Put returned unknown status.", <<>>)>>
PutLines(status) ==
    CASE status = "SUCCESS"  -> <<>>
      [] status = "NOTFOUND" -> <<Line("Put returned NOTFOUND.", <<>>)>>
      [] status = "INVALID"  -> <<Line("Put returned INVALID.", <<>>)>>
      [] status = "ERROR"    -> <<Line("Put returned ERROR.", <<>>)>>
      [] OTHER               -> <<Line("Put returned unknown status.", <<>>)>>

NothingLine(n) == Line("Number {} found nothing.", <<NumArg(n)>>)

WrongKeyLine(n, k, got) ==
    Line("Number {} returned wrong key: {} {}", <<NumArg(n), Hex(k), Hex(got)>>)

MultipleLine(n) == Line("Number {} found more than one result.", <<NumArg(n)>>)

StartingLine == Line("Starting searches.", <<>>)

TookLine(ns, n) ==
    Line("test took {} nanoseconds for {} searches", <<ns, NumArg(n)>>)

UsageLine == Line("Usage:  binary <coordinator ip> <coordinator port> <space name> <numbers>", <<>>)

\* the handlers of lines 207-226, chosen by the class of the exception
CatchLine(ex) ==
    CASE ex = "po6::error"         -> Line("There was a system error:  {}", <<>>)
      [] ex = "std::runtime_error" -> Line("There was a runtime error:  {}", <<>>)
      [] ex = "std::bad_alloc"     -> Line("There was a memory allocation error:  {}", <<>>)
      [] OTHER                     -> Line("There was a generic error:  {}", <<>>)

-----------------------------------------------------------------------------
(* The elapsed time: lines 190-204 *)

Timespec(sec, nsec) == [tv_sec |-> sec, tv_nsec |-> nsec]

\* a C++ comparison yields a bool, which compares as the int 0 or 1
BoolToInt(b) == IF b THEN 1 ELSE 0

\* the condition of line 193: (end.tv_nsec < start.tv_nsec) < 0
Borrow(st, en) == BoolToInt(en.tv_nsec < st.tv_nsec) < 0

\* lines 193-202
TimeDiffNoSecs(st, en) ==
    IF en.tv_nsec < st.tv_nsec
    THEN Timespec(en.tv_sec - st.tv_sec,
                  NSEC_PER_SEC + en.tv_nsec - st.tv_nsec)
    ELSE Timespec(en.tv_sec - st.tv_sec, en.tv_nsec - st.tv_nsec)
TimeDiff(st, en) ==
    IF Borrow(st, en)
    THEN Timespec(en.tv_sec - st.tv_sec - 1,
                  NSEC_PER_SEC + en.tv_nsec - st.tv_nsec)
    ELSE Timespec(en.tv_sec - st.tv_sec, en.tv_nsec - st.tv_nsec)

\* The uint64_t that the long q * 10^9 + r converts to, 0 <= r < 10^9, as
\* three base-10^9 digits.  A negative long converts to itself plus 2^64,
\* and 2^64 = 18 * 10^18 + 446744073 * 10^9 + 709551616.  (Every long of
\* the model is below 2^63 in magnitude, so the long itself never wraps.)
Uint64OfLong(q, r) ==
    IF q >= 0 THEN <<q \div NSEC_PER_SEC, q % NSEC_PER_SEC, r>>
    ELSE LET d0 == 709551616 + r
             d1 == 446744073 + q + (d0 \div NSEC_PER_SEC)
         IN  <<18 + (d1 \div NSEC_PER_SEC), d1 % NSEC_PER_SEC, d0 % NSEC_PER_SEC>>

\* line 204: uint64_t nanosecs = diff.tv_sec * 1000000000 + diff.tv_nsec
Nanosecs(d) ==
    Uint64OfLong(d.tv_sec + (d.tv_nsec \div NSEC_PER_SEC), d.tv_nsec % NSEC_PER_SEC)

NoTime == Timespec(0, 0)

-----------------------------------------------------------------------------
(* The store behind hyperdex::client, and the result cursor *)

Statuses == {"SUCCESS", "NOTFOUND", "INVALID", "ERROR", "UNKNOWN"}

Exceptions == {"po6::error", "std::runtime_error", "std::bad_alloc", "std::exception"}

\* cl.put(space, key, value): a successful put stores the record under its key
StorePut(st, k, v, status) ==
    IF status = "SUCCESS"
    THEN {r \in st : r.key # k} \cup {[key |-> k, value |-> v]}
    ELSE st

\* the keys of the records whose attributes all equal the search terms
Matching(st, t) == {r.key : r \in {x \in st : x.value = t}}

\* the cursors that hold exactly the keys of a set, each once, in some order
SeqsOf(S) ==
    {q \in [1..Cardinality(S) -> S] : \A i, j \in 1..Cardinality(S) : q[i] = q[j] => i = j}

\* search_results: the keys found and the position of the current one
Cursor(results) == [results |-> results, pos |-> 1]

NoCursor == Cursor(<<>>)

\* s.valid()
Valid(c) == c.pos <= Len(c.results)

\* s.key()
CurrentKey(c) == c.results[c.pos]

\* s.next()
Advance(c) == [c EXCEPT !.pos = c.pos + 1]

\* what a call that returned is recorded as
Event(op, data, arg) == [op |-> op, data |-> data, arg |-> arg]

-----------------------------------------------------------------------------
(* main *)

\* the command lines: argc, and for argv[1], argv[2], argv[4] what their
\* conversion does (it returns a value or throws the exception named)
Numbers == {[err |-> "ok", val |-> U32OfNat(n)] : n \in 0..MaxN}
               \cup {[err |-> e, val |-> U32Zero] : e \in {"std::domain_error", "std::out_of_range"}}

CommandLines ==
    [argc : {4, 5, 6},
     ip : {"ok", "std::invalid_argument"},
     port : {"ok", "std::domain_error", "std::out_of_range"},
     number : Numbers]

\* the readings of clock_gettime before and after the searches
StartTimes == {Timespec(10, 500)}

EndTimes == {Timespec(11, 200), Timespec(11, 700)}

Init ==
    /\ pc = "main"
    /\ argv \in CommandLines
    /\ numbers = U32Zero
    /\ num = U32Zero
    /\ key = <<>>
    /\ value = <<>>
    /\ terms = <<>>
    /\ store = {}
    /\ s = NoCursor
    /\ inflight = {}
    /\ trace = <<>>
    /\ log = <<>>
    /\ start = NoTime
    /\ end = NoTime
    /\ diff = NoTime
    /\ nanosecs = <<0, 0, 0>>
    /\ exitcode = NoExit
    /\ thrown = "none"

\* std::cerr << line << std::endl; return code;
Return(line, code) ==
    /\ log' = Append(log, line)
    /\ exitcode' = code
    /\ pc' = "exited"

\* line 48: argc != 5 is a usage error
ArgcOK(argc) == argc = 5

\* lines 48-51
CheckArgc ==
    /\ pc = "main"
    /\ IF ArgcOK(argv.argc)
       THEN pc' = "parse_ip" /\ UNCHANGED <<log, exitcode>>
       ELSE Return(UsageLine, EXIT_FAILURE)
    /\ UNCHANGED <<argv, numbers, num, key, value, terms, store, s, inflight,
                   trace, start, end, diff, nanosecs, thrown>>

\* lines 58-66
ParseIp ==
    /\ pc = "parse_ip"
    /\ IF argv.ip = "ok"
       THEN pc' = "parse_port" /\ UNCHANGED <<log, exitcode>>
       ELSE Return(Line("The IP address must be an IPv4 or IPv6 address.", <<>>),
                   EXIT_FAILURE)
    /\ UNCHANGED <<argv, numbers, num, key, value, terms, store, s, inflight,
                   trace, start, end, diff, nanosecs, thrown>>

\* lines 68-81
ParsePort ==
    /\ pc = "parse_port"
    /\ CASE argv.port = "ok" -> pc' = "parse_numbers" /\ UNCHANGED <<log, exitcode>>
         [] argv.port = "std::domain_error" ->
                Return(Line("The port number must be an integer.", <<>>), EXIT_FAILURE)
         [] OTHER ->
                Return(Line("The port number must be suitably small.", <<>>), EXIT_FAILURE)
    /\ UNCHANGED <<argv, numbers, num, key, value, terms, store, s, inflight,
                   trace, start, end, diff, nanosecs, thrown>>

\* lines 83-96
ParseNumbers ==
    /\ pc = "parse_numbers"
    /\ CASE argv.number.err = "ok" ->
                /\ numbers' = argv.number.val
                /\ pc' = "connect"
                /\ UNCHANGED <<log, exitcode>>
         [] argv.number.err = "std::domain_error" ->
                /\ Return(Line("The number must be an integer.", <<>>), EXIT_FAILURE)
                /\ UNCHANGED numbers
         [] OTHER ->
                /\ Return(Line("The number must be suitably small.", <<>>), EXIT_FAILURE)
                /\ UNCHANGED numbers
    /\ UNCHANGED <<argv, num, key, value, terms, store, s, inflight,
                   trace, start, end, diff, nanosecs, thrown>>

\* lines 100-104: the client is constructed and the load loop starts at 0
Connect ==
    /\ pc = "connect"
    /\ num' = U32Zero
    /\ pc' = "load_test"
    /\ UNCHANGED <<argv, numbers, key, value, terms, store, s, inflight,
                   trace, log, start, end, diff, nanosecs, exitcode, thrown>>

\* the conditions of the loops of lines 104 and 150: num < numbers
LoopCondShort(n, total) == U32Less(U32Inc(n), total)
LoopCond(n, total) == U32Less(n, total)

\* lines 104-124: num < numbers, the record is built and cl.put is called
LoadCall ==
    /\ pc = "load_test"
    /\ LoopCond(num, numbers)
    /\ key' = Key(num)
    /\ value' = AttributeVector(num)
    /\ inflight' = inflight \cup {"put"}
    /\ pc' = "put_wait"
    /\ UNCHANGED <<argv, numbers, num, terms, store, s, trace, log,
                   start, end, diff, nanosecs, exitcode, thrown>>

\* the value of num after an iteration of the load loop: ++num
LoadStepStay(n, status) == IF status = "SUCCESS" THEN U32Inc(n) ELSE n
LoadStep(n, status) == U32Inc(n)

\* lines 124-141: cl.put returns a status, the switch, ++num
PutReturn(status) ==
    /\ pc = "put_wait"
    /\ inflight' = inflight \ {"put"}
    /\ store' = StorePut(store, key, value, status)
    /\ trace' = Append(trace, Event("put", key, status))
    /\ log' = log \o PutLines(status)
    /\ num' = LoadStep(num, status)
    /\ pc' = "load_test"
    /\ UNCHANGED <<argv, numbers, key, value, terms, s,
                   start, end, diff, nanosecs, exitcode, thrown>>

\* line 143: the load loop is over, e::sleep_ms(1, 0) is called
SleepCall ==
    /\ pc = "load_test"
    /\ ~LoopCond(num, numbers)
    /\ pc' = "sleep_wait"
    /\ UNCHANGED <<argv, numbers, num, key, value, terms, store, s, inflight,
                   trace, log, start, end, diff, nanosecs, exitcode, thrown>>

\* lines 143-150: the sleep returns, the line, the first clock reading, num = 0
SleepReturn(now) ==
    /\ pc = "sleep_wait"
    /\ trace' = Append(trace, Event("sleep", <<>>, "-"))
    /\ log' = Append(log, StartingLine)
    /\ start' = now
    /\ num' = U32Zero
    /\ pc' = "search_test"
    /\ UNCHANGED <<argv, numbers, key, value, terms, store, s, inflight,
                   end, diff, nanosecs, exitcode, thrown>>

\* lines 150-168: num < numbers, the terms are built and cl.search is called
SearchCall ==
    /\ pc = "search_test"
    /\ LoopCond(num, numbers)
    /\ terms' = SearchTerms(num)
    /\ key' = Key(num)
    /\ inflight' = inflight \cup {"search"}
    /\ pc' = "search_wait"
    /\ UNCHANGED <<argv, numbers, num, value, store, s, trace, log,
                   start, end, diff, nanosecs, exitcode, thrown>>

\* the cursors a search for num may return: the exact matches of the terms in
\* any order, or no key, or Key(num) or Key(num + 1), alone or followed by a
\* second key
NearKeys(n) == {Key(n), Key(U32Inc(n))}

Cursors(st, t, n) ==
    SeqsOf(Matching(st, t))
        \cup {<<>>}
        \cup {<<k>> : k \in NearKeys(n)}
        \cup {<<k, Key(U32Inc(n))>> : k \in NearKeys(n)}

\* line 168: cl.search returns the cursor
SearchReturn(results) ==
    /\ pc = "search_wait"
    /\ inflight' = inflight \ {"search"}
    /\ s' = Cursor(results)
    /\ trace' = Append(trace, Event("search", terms, results))
    /\ pc' = "check_first"
    /\ UNCHANGED <<argv, numbers, num, key, value, terms, store, log,
                   start, end, diff, nanosecs, exitcode, thrown>>

\* line 176: key != s.key()
KeyDiffersNever(k, c) == FALSE
KeyDiffers(k, c) == k # CurrentKey(c)

\* lines 170-181: nothing found; or the key is compared and s.next() is called
\* (s.key() is read once to compare and once more to print a wrong key)
CheckFirst ==
    /\ pc = "check_first"
    /\ IF ~Valid(s)
       THEN /\ log' = Append(log, NothingLine(num))
            /\ pc' = "search_incr"
            /\ UNCHANGED <<inflight, trace>>
       ELSE /\ IF KeyDiffers(key, s)
               THEN /\ log' = Append(log, WrongKeyLine(num, key, CurrentKey(s)))
                    /\ trace' = trace \o <<Event("key", <<>>, "-"), Event("key", <<>>, "-")>>
               ELSE /\ log' = log
                    /\ trace' = Append(trace, Event("key", <<>>, "-"))
            /\ inflight' = inflight \cup {"next"}
            /\ pc' = "next_wait"
    /\ UNCHANGED <<argv, numbers, num, key, value, terms, store, s,
                   start, end, diff, nanosecs, exitcode, thrown>>

\* lines 181-186: s.next() returns, a second entry is one too many
NextReturn ==
    /\ pc = "next_wait"
    /\ inflight' = inflight \ {"next"}
    /\ s' = Advance(s)
    /\ trace' = Append(trace, Event("next", <<>>, "-"))
    /\ log' = IF Valid(s') THEN Append(log, MultipleLine(num)) ELSE log
    /\ pc' = "search_incr"
    /\ UNCHANGED <<argv, numbers, num, key, value, terms, store,
                   start, end, diff, nanosecs, exitcode, thrown>>

\* the value of num after an iteration of the search loop: ++num
SearchStepSkip(n, c) == IF c.results = <<>> THEN U32Inc(U32Inc(n)) ELSE U32Inc(n)
SearchStep(n, c) == U32Inc(n)

\* lines 150, 188: ++num, the cursor goes out of scope
SearchIncr ==
    /\ pc = "search_incr"
    /\ s' = NoCursor
    /\ num' = SearchStep(num, s)
    /\ pc' = "search_test"
    /\ UNCHANGED <<argv, numbers, key, value, terms, store, inflight, trace, log,
                   start, end, diff, nanosecs, exitcode, thrown>>

\* lines 190-205, 228: the search loop is over; the second clock reading, the
\* elapsed time, its line, return EXIT_SUCCESS
Finish(now) ==
    /\ pc = "search_test"
    /\ ~LoopCond(num, numbers)
    /\ end' = now
    /\ diff' = TimeDiff(start, now)
    /\ nanosecs' = Nanosecs(TimeDiff(start, now))
    /\ Return(TookLine(Nanosecs(TimeDiff(start, now)), numbers), EXIT_SUCCESS)
    /\ UNCHANGED <<argv, numbers, num, key, value, terms, store, s, inflight,
                   trace, start, thrown>>

\* what a handler of lines 207-226 returns
CatchExitGeneric(ex) == IF ex = "std::exception" THEN EXIT_SUCCESS ELSE EXIT_FAILURE
CatchExit(ex) == EXIT_FAILURE

\* lines 207-226: the constructor of the client or a call to the store throws;
\* the handler of its class writes a line and returns
Throw(ex) ==
    /\ pc = "connect" \/ inflight # {}
    /\ thrown' = ex
    /\ inflight' = {}
    /\ Return(CatchLine(ex), CatchExit(ex))
    /\ UNCHANGED <<argv, numbers, num, key, value, terms, store, s,
                   trace, start, end, diff, nanosecs>>

Next ==
    \/ CheckArgc
    \/ ParseIp
    \/ ParsePort
    \/ ParseNumbers
    \/ Connect
    \/ LoadCall
    \/ \E status \in Statuses : PutReturn(status)
    \/ SleepCall
    \/ \E now \in StartTimes : SleepReturn(now)
    \/ SearchCall
    \/ \E results \in Cursors(store, terms, num) : SearchReturn(results)
    \/ CheckFirst
    \/ NextReturn
    \/ SearchIncr
    \/ \E now \in EndTimes : Finish(now)
    \/ \E ex \in Exceptions : Throw(ex)

Spec == Init /\ [][Next]_vars

-----------------------------------------------------------------------------
(* The bit encoding alone, on identifiers of the whole uint32_t range *)

EncInputs ==
    {U32(h, l) : h \in (0..MaxEncHi) \cup {32767, 32768, 65535},
                 l \in (0..MaxEncLo) \cup {32768, 65534, 65535}}

InitEnc ==
    /\ pc = "enc_input"
    /\ num \in EncInputs
    /\ argv = [argc |-> 5, ip |-> "ok", port |-> "ok",
               number |-> [err |-> "ok", val |-> U32Zero]]
    /\ numbers = U32Zero
    /\ key = <<>>
    /\ value = <<>>
    /\ terms = <<>>
    /\ store = {}
    /\ s = NoCursor
    /\ inflight = {}
    /\ trace = <<>>
    /\ log = <<>>
    /\ start = NoTime
    /\ end = NoTime
    /\ diff = NoTime
    /\ nanosecs = <<0, 0, 0>>
    /\ exitcode = NoExit
    /\ thrown = "none"

\* lines 106-122 for num
EncodeValue ==
    /\ pc = "enc_input"
    /\ key' = Key(num)
    /\ value' = AttributeVector(num)
    /\ pc' = "enc_value"
    /\ UNCHANGED <<argv, numbers, num, terms, store, s, inflight, trace, log,
                   start, end, diff, nanosecs, exitcode, thrown>>

\* lines 152-166 for num
EncodeTerms ==
    /\ pc = "enc_value"
    /\ terms' = SearchTerms(num)
    /\ pc' = "enc_terms"
    /\ UNCHANGED <<argv, numbers, num, key, value, store, s, inflight, trace, log,
                   start, end, diff, nanosecs, exitcode, thrown>>

NextEnc == EncodeValue \/ EncodeTerms

SpecEnc == InitEnc /\ [][NextEnc]_vars

-----------------------------------------------------------------------------
(* The elapsed-time computation alone, on pairs of clock readings *)

Times ==
    {Timespec(sec, nsec) : sec \in (10..(10 + MaxSecs)) \cup {2000000000},
                           nsec \in {0, 200, 500, 999999999}}

InitTime ==
    /\ pc = "time_input"
    /\ start \in Times
    /\ end \in Times
    /\ argv = [argc |-> 5, ip |-> "ok", port |-> "ok",
               number |-> [err |-> "ok", val |-> U32Zero]]
    /\ numbers = U32Zero
    /\ num = U32Zero
    /\ key = <<>>
    /\ value = <<>>
    /\ terms = <<>>
    /\ store = {}
    /\ s = NoCursor
    /\ inflight = {}
    /\ trace = <<>>
    /\ log = <<>>
    /\ diff = NoTime
    /\ nanosecs = <<0, 0, 0>>
    /\ exitcode = NoExit
    /\ thrown = "none"

\* lines 191-202
ComputeDiff ==
    /\ pc = "time_input"
    /\ diff' = TimeDiff(start, end)
    /\ pc' = "time_diff"
    /\ UNCHANGED <<argv, numbers, num, key, value, terms, store, s, inflight,
                   trace, log, start, end, nanosecs, exitcode, thrown>>

\* lines 204-205
ComputeNanosecs ==
    /\ pc = "time_diff"
    /\ nanosecs' = Nanosecs(diff)
    /\ log' = Append(log, TookLine(Nanosecs(diff), numbers))
    /\ pc' = "time_done"
    /\ UNCHANGED <<argv, numbers, num, key, value, terms, store, s, inflight,
                   trace, start, end, diff, exitcode, thrown>>

NextTime == ComputeDiff \/ ComputeNanosecs

SpecTime == InitTime /\ [][NextTime]_vars

-----------------------------------------------------------------------------
(* Vocabulary of the properties *)

\* bit i (0..31) of a uint32_t, by division
BitOf(n, i) ==
    IF i < 16 THEN (n.lo \div (2 ^ i)) % 2 ELSE (n.hi \div (2 ^ (i - 16))) % 2

\* the number whose bits are read off a vector: bit i is 1 iff entry i is ONE
RECURSIVE DecodeHalf(_, _, _)
DecodeHalf(v, from, count) ==
    IF count = 0 THEN 0
    ELSE (IF v[from + 1] = one THEN 1 ELSE 0) + 2 * DecodeHalf(v, from + 1, count - 1)

Decode(v) == U32(DecodeHalf(v, 16, 16), DecodeHalf(v, 0, 16))

NatOfU32(n) == n.hi * 65536 + n.lo

OpsOf(kind) == SelectSeq(trace, LAMBDA e : e.op = kind)

Puts == OpsOf("put")

Searches == OpsOf("search")

Slept == Len(OpsOf("sleep")) > 0

AllPutsSuccess == \A i \in 1..Len(Puts) : Puts[i].arg = "SUCCESS"

\* every search returned exactly the stored records that match its terms
AllSearchesExact ==
    \A i \in 1..Len(Searches) :
        Searches[i].arg \in SeqsOf(Matching(store, Searches[i].data))

AnomalyTexts ==
    {"Number {} found nothing.",
     "Number {} returned wrong key: {} {}",
     "Number {} found more than one result."}

AnomalyLines == SelectSeq(log, LAMBDA l : l.text \in AnomalyTexts)

PutLogLines ==
    SelectSeq(log, LAMBDA l : l.text \in {"Put returned NOTFOUND.", "Put returned INVALID.",
                                          "Put returned ERROR.", "Put returned unknown status."})

FailedPuts == SelectSeq(Puts, LAMBDA e : e.arg # "SUCCESS")

\* the text that names a put outcome
OutcomeText(status) ==
    CASE status = "NOTFOUND" -> "Put returned NOTFOUND."
      [] status = "INVALID"  -> "Put returned INVALID."
      [] status = "ERROR"    -> "Put returned ERROR."
      [] OTHER               -> "Put returned unknown status."

SeqRange(q) == {q[i] : i \in 1..Len(q)}

GoodArgs ==
    /\ argv.argc = 5
    /\ argv.ip = "ok"
    /\ argv.port = "ok"
    /\ argv.number.err = "ok"

-----------------------------------------------------------------------------
(* Properties *)

\* C1: when every put returned SUCCESS and every search returned exactly the
\* stored records matching its terms, the search for identifier n returned the
\* one-entry cursor <<Key(n)>>, for every n, and the log holds no "found
\* nothing", "wrong key" or "more than one result" line.
C1_CleanRunNoAnomaly ==
    (AllPutsSuccess /\ AllSearchesExact) =>
        /\ \A i \in 1..Len(Searches) : Searches[i].arg = <<Key(U32OfNat(i - 1))>>
        /\ AnomalyLines = <<>>

C1_Witness ==
    /\ pc = "exited"
    /\ exitcode = EXIT_SUCCESS
    /\ numbers = U32OfNat(2)
    /\ Len(Searches) = 2
    /\ AllPutsSuccess
    /\ AllSearchesExact

\* C2: the vector built for num has 32 entries, entry i is ONE iff bit i of
\* num is set and ZERO otherwise, ONE and ZERO differ, decoding the vector
\* gives num back, and no other identifier has the same vector.
C2_EncodingRoundTrips ==
    pc \in {"enc_value", "enc_terms"} =>
        /\ Len(value) = 32
        /\ \A i \in 0..31 : value[i + 1] = IF BitOf(num, i) = 1 THEN one ELSE zero
        /\ one # zero
        /\ Decode(value) = num
        /\ \A m \in EncInputs : m # num => AttributeVector(m) # value

C2_Witness ==
    /\ pc = "enc_value"
    /\ num = U32(32768, 1)
    /\ value[32] = one
    /\ value[1] = one
    /\ value[2] = zero

\* the elapsed time (s2 - s1) * 10^9 + (ns2 - ns1) of two readings, the later
\* not earlier than the first, as three base-10^9 digits
Earlier(a, b) == a.tv_sec < b.tv_sec \/ (a.tv_sec = b.tv_sec /\ a.tv_nsec < b.tv_nsec)

Elapsed(st, en) ==
    LET whole == IF en.tv_nsec >= st.tv_nsec
                 THEN en.tv_sec - st.tv_sec
                 ELSE en.tv_sec - st.tv_sec - 1
        part  == IF en.tv_nsec >= st.tv_nsec
                 THEN en.tv_nsec - st.tv_nsec
                 ELSE 1000000000 - (st.tv_nsec - en.tv_nsec)
    IN  <<whole \div 1000000000, whole % 1000000000, part>>

\* C3: when end is not earlier than start, the reported nanoseconds are
\* (s2 - s1) * 10^9 + (ns2 - ns1), below 2^63 (not a wrapped negative), also
\* when ns2 < ns1; for start (10 s, 500 ns) and end (11 s, 200 ns) they are
\* 999,999,700.
C3_ElapsedExact ==
    (pc = "time_done" /\ ~Earlier(end, start)) =>
        /\ nanosecs = Elapsed(start, end)
        /\ nanosecs[1] < 9
        /\ log[Len(log)].args[1] = Elapsed(start, end)
        /\ (start = Timespec(10, 500) /\ end = Timespec(11, 200)) =>
               nanosecs = <<0, 0, 999999700>>

C3_Witness ==
    /\ pc = "time_done"
    /\ start = Timespec(10, 500)
    /\ end = Timespec(11, 200)
    /\ nanosecs = <<0, 0, 999999700>>

\* C4: whatever the statuses, the puts issued are those of the identifiers
\* 0, 1, 2, ... in this order, each once, and when the load loop is over
\* there are exactly N of them.
C4_LoadIssuesEveryWrite ==
    /\ \A i \in 1..Len(Puts) : Puts[i].data = Key(U32OfNat(i - 1))
    /\ Len(Puts) <= NatOfU32(numbers)
    /\ (pc = "sleep_wait" \/ Slept) => Len(Puts) = NatOfU32(numbers)

C4_Witness ==
    /\ pc = "sleep_wait"
    /\ numbers = U32OfNat(2)
    /\ Puts[1].arg = "INVALID"
    /\ Puts[2].arg = "UNKNOWN"

\* C5: whatever the cursors, the searches issued are those of the identifiers
\* 0, 1, 2, ... in this order, each once, and when main returns EXIT_SUCCESS
\* there are exactly N of them.
C5_VerifyIssuesEverySearch ==
    /\ \A i \in 1..Len(Searches) :
           Searches[i].data = [b \in 1..32 |->
                                 IF BitOf(U32OfNat(i - 1), b - 1) = 1 THEN one ELSE zero]
    /\ Len(Searches) <= NatOfU32(numbers)
    /\ (pc = "exited" /\ exitcode = EXIT_SUCCESS) => Len(Searches) = NatOfU32(numbers)

C5_Witness ==
    /\ pc = "exited"
    /\ exitcode = EXIT_SUCCESS
    /\ numbers = U32OfNat(2)
    /\ Searches[1].arg = <<>>
    /\ Len(Searches[2].arg) = 2
    /\ Len(AnomalyLines) >= 2

\* C6 as amended: the put lines of the log are, in order, one line per put that
\* returned a status other than SUCCESS, each naming that status; a put that
\* returned SUCCESS has no line.
C6_PutOutcomeLogged ==
    /\ Len(PutLogLines) = Len(FailedPuts)
    /\ \A i \in 1..Len(FailedPuts) : PutLogLines[i].text = OutcomeText(FailedPuts[i].arg)

C6_Witness ==
    /\ Len(Puts) = 2
    /\ Puts[1].arg = "SUCCESS"
    /\ Puts[2].arg = "INVALID"
    /\ Len(PutLogLines) = 1
    /\ PutLogLines[1].text = "Put returned INVALID."

\* C6 as stated: moreover the line of a failed put holds the identifier n of
\* the put (the number whose key was written).
C6_PutLineNamesIdentifier ==
    /\ Len(PutLogLines) = Len(FailedPuts)
    /\ \A i \in 1..Len(FailedPuts) :
           /\ PutLogLines[i].text = OutcomeText(FailedPuts[i].arg)
           /\ \E n \in 0..MaxN :
                  /\ FailedPuts[i].data = Key(U32OfNat(n))
                  /\ NumArg(U32OfNat(n)) \in SeqRange(PutLogLines[i].args)

\* C7: at most one store call is outstanding; when the pause begins all N puts
\* have returned and none is outstanding; no put is issued or returns once the
\* pause began; a search is issued only after the pause ended.
C7_PhasesOrdered ==
    /\ Cardinality(inflight) <= 1
    /\ pc = "sleep_wait" => (Len(Puts) = NatOfU32(numbers) /\ inflight = {})
    /\ "put" \in inflight => (~Slept /\ Searches = <<>>)
    /\ (inflight \cap {"search", "next"} # {} \/ Searches # <<>>) =>
           (Slept /\ Len(Puts) = NatOfU32(numbers))
    /\ \A i, j \in 1..Len(trace) :
           (i < j /\ trace[i].op \in {"sleep", "search", "key", "next"}) =>
               trace[j].op \notin {"put", "sleep"}

C7_Witness ==
    /\ pc = "next_wait"
    /\ inflight = {"next"}
    /\ Len(Puts) = 2
    /\ Len(Searches) = 2

\* C8: main returns 0 exactly when the arguments are good and nothing was
\* thrown; an exception ends the run with 1 and no call outstanding; with a bad
\* argument the store is never called; once main returned nothing happens; the
\* anomalies in the log have no part in the exit code.
C8_ExitCode ==
    /\ pc = "exited" =>
           /\ exitcode \in {EXIT_SUCCESS, EXIT_FAILURE}
           /\ exitcode = EXIT_SUCCESS <=> (GoodArgs /\ thrown = "none")
           /\ inflight = {}
           /\ ~ENABLED Next
    /\ pc # "exited" => (exitcode = NoExit /\ thrown = "none")
    /\ ~GoodArgs => trace = <<>>

C8_Witness ==
    /\ pc = "exited"
    /\ exitcode = EXIT_SUCCESS
    /\ Len(FailedPuts) >= 1
    /\ Len(AnomalyLines) >= 3

\* the lines of the log about the identifier of the current iteration
LinesOfNum == SelectSeq(AnomalyLines, LAMBDA l : l.args[1] = NumArg(num))

\* the calls made on the cursor since the last search returned
LastSearchAt == CHOOSE i \in 1..Len(trace) :
                    trace[i].op = "search" /\ \A j \in (i + 1)..Len(trace) : trace[j].op # "search"

SinceSearch == SubSeq(trace, LastSearchAt + 1, Len(trace))

\* C9: at the end of the iteration for n: an empty cursor gave the one line
\* "found nothing", no key read and no advance; any other cursor gave "wrong
\* key" iff its first key is not Key(n), one advance, and then "more than one
\* result" iff it has a second entry.
C9_Classification ==
    pc = "search_incr" =>
        LET got    == [i \in 1..Len(LinesOfNum) |-> LinesOfNum[i].text]
            found  == Searches[Len(Searches)].arg
            nexts  == Len(SelectSeq(SinceSearch, LAMBDA e : e.op = "next"))
            reads  == Len(SelectSeq(SinceSearch, LAMBDA e : e.op = "key"))
        IN  IF found = <<>>
            THEN got = <<"Number {} found nothing.">> /\ nexts = 0 /\ reads = 0
            ELSE /\ got = (IF found[1] # Key(num)
                           THEN <<"Number {} returned wrong key: {} {}">> ELSE <<>>)
                          \o (IF Len(found) >= 2
                              THEN <<"Number {} found more than one result.">> ELSE <<>>)
                 /\ nexts = 1
                 /\ reads >= 1

C9_Witness ==
    /\ pc = "search_incr"
    /\ num = U32OfNat(1)
    /\ Len(LinesOfNum) = 2
    /\ LinesOfNum[1].text = "Number {} returned wrong key: {} {}"
    /\ LinesOfNum[2].text = "Number {} found more than one result."

\* C10 as stated: when end.tv_nsec < start.tv_nsec the difference has
\* tv_sec = end.tv_sec - start.tv_sec - 1 and
\* tv_nsec = 10^9 + end.tv_nsec - start.tv_nsec, and the tv_nsec of the
\* difference is always in [0, 10^9).
C10_BorrowPerformed ==
    pc \in {"time_diff", "time_done"} =>
        /\ end.tv_nsec < start.tv_nsec =>
               /\ diff.tv_sec = end.tv_sec - start.tv_sec - 1
               /\ diff.tv_nsec = 1000000000 + end.tv_nsec - start.tv_nsec
        /\ diff.tv_nsec >= 0
        /\ diff.tv_nsec < 1000000000

=============================================================================
